---- MODULE Spec2Model ----
(***************************************************************************)
(* State-machine model of src/app/utils/steam/steamworks/wrapper.py:       *)
(* the SDK session (SteamworksInterface) with its poll thread, the         *)
(* completion waiter and the subscription orchestrator                     *)
(* (SteamworksSubscriptionHandler).                                        *)
(*                                                                         *)
(* Time is counted in ticks of OPERATION_INTERVAL (0.1 s); the clock `now` *)
(* advances in the sleeps of the main flow.  The poll thread is untimed:   *)
(* it interleaves freely with the main flow.  The SDK is the environment:  *)
(* initialize() succeeds or raises, loaded() may be false after a          *)
(* successful initialize and may turn true later, every per-item call may  *)
(* raise, and a pump delivers any registered callback or raises.           *)
(***************************************************************************)
EXTENDS Integers, Sequences, FiniteSets, TLC

\* ------------------------------------------------------------- bounds
MaxLen == 2
MaxCallbacks == 2
MaxEvents == 3

\* ------------------------------------------------- program constants
TicksPerSecond == 10
OPERATION_INTERVAL == 1
RESUBSCRIBE_STAGE_WAIT == 1
STEAMWORKS_TIMEOUT == 30
JOIN_TIMEOUT == 5
QUERY_TIMEOUT == 60
DEFAULT_INTERVAL == 1
COOLDOWN == 1

Ticks(seconds) == seconds * TicksPerSecond

\* None, for callbacks_total
None == -1

\* ------------------------------------------------------------- inputs
\* published file ids the caller and the SDK may name
Ids == {1, 2}

RECURSIVE SeqsUpTo(_)
SeqsUpTo(n) ==
    IF n = 0 THEN {<< >>}
    ELSE LET shorter == SeqsUpTo(n - 1)
         IN  shorter \cup {Append(s, i) : s \in {t \in shorter : Len(t) = n - 1}, i \in Ids}

IdLists == SeqsUpTo(MaxLen)

\* pfid_or_pfids as the caller passes it: a single int or a list of ints
Args == {<<"int", i>> : i \in Ids} \cup {<<"list", s>> : s \in IdLists}

\* the dependency lists a dependency-result callback may carry
AppDeps == {<< >>, << 7 >>}

\* the uuids of the mods: uuid 1 is a mod known at the start, the others are
\* what uuid4() hands out for created mod directories
Uuids == {1, 2}

\* the mod directories watched (each with its metadata file)
Paths == {"modA", "modB"}

ActionLiterals == {"subscribe", "unsubscribe", "resubscribe", "purge"}

\* mutant: the validation accepts every literal
valid_actions_any == ActionLiterals

valid_actions == {"subscribe", "unsubscribe", "resubscribe"}

VARIABLES
    entry,              \* which entry point runs: "sub", "deps" or "launch"
    action,             \* the action literal the caller passes
    arg,                \* pfid_or_pfids as passed
    pfid_or_pfids,      \* self.pfid_or_pfids after construction
    pc,                 \* position of the main flow
    idx,                \* loop index of the stage being issued (0-based count done)
    now,                \* time(), in ticks
    start_time,         \* start_time of the running timed loop
    completed,          \* last value returned by _wait_for_callbacks ("none" before)
    outcome,            \* how run ended ("none" while running)
    callbacks_count,
    callbacks_total,
    multiple_queries,
    end_callbacks,
    steam_not_running,
    session,            \* TRUE once a SteamworksInterface has been constructed
    sdkInit,            \* steamworks.initialize() succeeded
    sdkLoaded,          \* what steamworks.loaded() answers
    unloads,            \* number of steamworks.unload() calls
    tpc,                \* position of the poll thread
    registered,         \* callback kinds registered with the SDK
    calls,              \* the SDK calls and sleeps of the main flow, in order
    invoked,            \* invocations of the counting handlers (subscribe,
                        \* unsubscribe, dependency result) so far
    dl_invoked,         \* invocations of the download handler so far
    get_app_deps_query_result,  \* the result map of the session
    cb_raised,          \* an exception has left a callback handler
    arrived,            \* the ids the dependency handler has been called for
    cooldown_timers,    \* WatchdogHandler: uuid -> its latest Timer (0: none), as
                        \* an index of `timers`
    timers,             \* every Timer constructed so far, in order
    emitted,            \* the signals emitted so far, in order
    mod_metadata_dir_mapper,    \* mod directory -> uuid (0: not mapped)
    mod_metadata_file_mapper    \* metadata file of a mod directory -> uuid

vars == <<entry, action, arg, pfid_or_pfids, pc, idx, now, start_time, completed, outcome,
          callbacks_count, callbacks_total, multiple_queries, end_callbacks,
          steam_not_running, session, sdkInit, sdkLoaded, unloads, tpc,
          registered, calls, invoked, dl_invoked, get_app_deps_query_result,
          cb_raised, arrived, cooldown_timers, timers, emitted,
          mod_metadata_dir_mapper, mod_metadata_file_mapper>>

watchdogVars == <<cooldown_timers, timers, emitted,
                  mod_metadata_dir_mapper, mod_metadata_file_mapper>>
inputVars == <<entry, action, arg, watchdogVars>>
sessionVars == <<callbacks_count, callbacks_total, multiple_queries, end_callbacks,
                 steam_not_running, session>>
sdkVars == <<sdkInit, sdkLoaded, unloads, registered>>
counters == <<invoked, dl_invoked, get_app_deps_query_result, cb_raised, arrived>>

\* --------------------------------------------------------------- helpers
\* mutant: a single id is wrapped twice
Normalize_doubles(a) == IF a[1] = "list" THEN a[2] ELSE << a[2], a[2] >>

\* isinstance(pfid_or_pfids, list) ? pfid_or_pfids : [pfid_or_pfids]
Normalize(a) == IF a[1] = "list" THEN a[2] ELSE << a[2] >>

Call(op, id, res) == [op |-> op, id |-> id, hp |-> FALSE, res |-> res]
Download(id, res) == [op |-> "DownloadItem", id |-> id, hp |-> TRUE, res |-> res]
Sleep(ticks) == [op |-> "sleep", id |-> ticks, hp |-> FALSE, res |-> "ok"]
Register(op) == [op |-> op, id |-> 0, hp |-> FALSE, res |-> "ok"]

\* callbacks the SDK has delivered so far
Invocations == invoked + dl_invoked

\* Thread.is_alive() of steamworks_thread
is_alive == tpc \in {"spin", "test", "call", "pumping"}

\* A subscription action runs in its own process: when run returns the process
\* exits and its daemon poll thread goes with it.
ProcessRunning == ~(entry = "sub" /\ pc \in {"done", "rejected"})

\* ------------------------------------------------------------------ Init
InitState ==
    /\ pfid_or_pfids = << >>
    /\ pc = "new"
    /\ idx = 0
    /\ now = 0
    /\ start_time = 0
    /\ completed = "none"
    /\ outcome = "none"
    /\ callbacks_count = 0
    /\ callbacks_total = None
    /\ multiple_queries = FALSE
    /\ end_callbacks = FALSE
    /\ steam_not_running = FALSE
    /\ session = FALSE
    /\ sdkInit = FALSE
    /\ sdkLoaded = FALSE
    /\ unloads = 0
    /\ tpc = "none"
    /\ registered = {}
    /\ calls = << >>
    /\ invoked = 0
    /\ dl_invoked = 0
    /\ get_app_deps_query_result = << >>
    /\ cb_raised = FALSE
    /\ arrived = {}
    /\ cooldown_timers = [u \in Uuids |-> 0]
    /\ timers = << >>
    /\ emitted = << >>
    /\ mod_metadata_dir_mapper = [p \in Paths |-> IF p = "modA" THEN 1 ELSE 0]
    /\ mod_metadata_file_mapper = [p \in Paths |-> IF p = "modA" THEN 1 ELSE 0]

\* a subscription action: SteamworksSubscriptionHandler(action, pfid_or_pfids)
InitHandler ==
    /\ entry = "sub"
    /\ action \in ActionLiterals
    /\ arg \in Args
    /\ InitState

\* a dependency query: SteamworksAppDependenciesQuery(pfid_or_pfids)
InitQuery ==
    /\ entry = "deps"
    /\ action = "query"
    /\ arg \in Args
    /\ InitState

\* a file watcher: WatchdogHandler(settings_controller, targets)
InitWatchdog ==
    /\ entry = "watchdog"
    /\ action = "watch"
    /\ arg = <<"list", << >> >>
    /\ InitState

\* a plain game launch: SteamworksGameLaunch(game_install_path, args)
InitLaunch ==
    /\ entry = "launch"
    /\ action = "launch"
    /\ arg = <<"list", << >> >>
    /\ InitState

\* ------------------------------------------------- SteamworksInterface
\* mutant: the poll thread is started whether or not initialize() succeeded
interface_init_always_thread(callbacks, total, ok, ld) ==
    /\ callbacks_count' = 0
    /\ callbacks_total' = total
    /\ end_callbacks' = FALSE
    /\ multiple_queries' = (callbacks /\ total # None /\ total # 0)
    /\ steam_not_running' = ~ok
    /\ session' = TRUE
    /\ sdkInit' = ok
    /\ sdkLoaded' = (ok /\ ld)
    /\ tpc' = IF callbacks THEN "spin" ELSE "none"

\* mutant: the except clause does not record the failure
interface_init_hides_failure(callbacks, total, ok, ld) ==
    /\ callbacks_count' = 0
    /\ callbacks_total' = total
    /\ end_callbacks' = FALSE
    /\ multiple_queries' = (callbacks /\ total # None /\ total # 0)
    /\ steam_not_running' = FALSE
    /\ session' = TRUE
    /\ sdkInit' = ok
    /\ sdkLoaded' = (ok /\ ld)
    /\ tpc' = IF ok /\ callbacks THEN "spin" ELSE "none"

\* SteamworksInterface.__init__(callbacks, callbacks_total): ok is whether
\* steamworks.initialize() returns (TRUE) or raises (FALSE); ld is what
\* loaded() answers right after a successful initialize.
interface_init(callbacks, total, ok, ld) ==
    /\ callbacks_count' = 0
    /\ callbacks_total' = total
    /\ end_callbacks' = FALSE
    /\ multiple_queries' = (callbacks /\ total # None /\ total # 0)
    /\ steam_not_running' = ~ok
    /\ session' = TRUE
    /\ sdkInit' = ok
    /\ sdkLoaded' = (ok /\ ld)
    /\ tpc' = IF ok /\ callbacks THEN "spin" ELSE "none"

\* steamworks.unload()
unload ==
    /\ unloads' = unloads + 1
    /\ sdkLoaded' = FALSE

\* The SDK finishes loading some time after initialize() returned.
SdkLoads ==
    /\ sdkInit /\ ~sdkLoaded /\ unloads = 0
    /\ ProcessRunning
    /\ sdkLoaded' = TRUE
    /\ UNCHANGED <<inputVars, pfid_or_pfids, pc, idx, now, start_time, completed,
                   outcome, sessionVars, sdkInit, unloads, tpc, registered, calls,
                   counters>>

\* ------------------------------------------------ poll thread (_callbacks)
threadFrame == <<inputVars, pfid_or_pfids, pc, idx, now, start_time, completed,
                 outcome, callbacks_total, multiple_queries, steam_not_running,
                 session, sdkVars, calls>>

\* while not self.steamworks.loaded(): ... else: "Steamworks loaded!"
callbacks_spin ==
    /\ tpc = "spin" /\ ProcessRunning
    /\ sdkLoaded
    /\ tpc' = "test"
    /\ UNCHANGED <<threadFrame, callbacks_count, end_callbacks, counters>>

\* mutant: the loop never looks at the stop flag
callbacks_condition_always == TRUE

\* line 149: not self.end_callbacks
callbacks_condition == ~end_callbacks

\* while not self.end_callbacks:
callbacks_test ==
    /\ tpc = "test" /\ ProcessRunning
    /\ tpc' = IF callbacks_condition THEN "call" ELSE "ended"
    /\ UNCHANGED <<threadFrame, callbacks_count, end_callbacks, counters>>

\* self.steamworks.run_callbacks() is entered; on an unloaded SDK it raises
run_callbacks_enter ==
    /\ tpc = "call" /\ ProcessRunning
    /\ tpc' = IF sdkLoaded THEN "pumping" ELSE "dead"
    /\ UNCHANGED <<threadFrame, callbacks_count, end_callbacks, counters>>

\* self.steamworks.run_callbacks() raises: the thread dies with the exception
run_callbacks_raises ==
    /\ tpc \in {"call", "pumping"} /\ ProcessRunning
    /\ tpc' = "dead"
    /\ UNCHANGED <<threadFrame, callbacks_count, end_callbacks, counters>>

\* mutant: the handler ends the action as the dependency handler does
create_callback_sets_flag(operation) ==
    /\ tpc = "pumping" /\ ProcessRunning
    /\ operation \in registered
    /\ Invocations < MaxCallbacks
    /\ callbacks_count' = callbacks_count + 1
    /\ invoked' = invoked + 1
    /\ end_callbacks' = TRUE
    /\ UNCHANGED <<threadFrame, tpc, dl_invoked,
                   get_app_deps_query_result, cb_raised, arrived>>

\* mutant: the handler is called from anywhere, not only within a pump
create_callback_anywhere(operation) ==
    /\ ProcessRunning
    /\ operation \in registered
    /\ Invocations < MaxCallbacks
    /\ callbacks_count' = callbacks_count + 1
    /\ invoked' = invoked + 1
    /\ UNCHANGED <<threadFrame, tpc, end_callbacks, dl_invoked,
                   get_app_deps_query_result, cb_raised, arrived>>

\* the closure of _create_callback(operation): counts, then logs defensively
create_callback(operation) ==
    /\ tpc = "pumping" /\ ProcessRunning
    /\ operation \in registered
    /\ Invocations < MaxCallbacks
    /\ callbacks_count' = callbacks_count + 1
    /\ invoked' = invoked + 1
    /\ UNCHANGED <<threadFrame, tpc, end_callbacks, dl_invoked,
                   get_app_deps_query_result, cb_raised, arrived>>

\* mutant: the download handler counts as the other handlers do
create_download_callback_counts ==
    /\ tpc = "pumping" /\ ProcessRunning
    /\ "download" \in registered
    /\ Invocations < MaxCallbacks
    /\ dl_invoked' = dl_invoked + 1
    /\ callbacks_count' = callbacks_count + 1
    /\ UNCHANGED <<threadFrame, tpc, end_callbacks, invoked,
                   get_app_deps_query_result, cb_raised, arrived>>

\* the closure of _create_download_callback: logs only
create_download_callback ==
    /\ tpc = "pumping" /\ ProcessRunning
    /\ "download" \in registered
    /\ Invocations < MaxCallbacks
    /\ dl_invoked' = dl_invoked + 1
    /\ UNCHANGED <<threadFrame, tpc, callbacks_count, end_callbacks, invoked,
                   get_app_deps_query_result, cb_raised, arrived>>

\* run_callbacks() returns; sleep(0.1)
run_callbacks_return ==
    /\ tpc = "pumping" /\ ProcessRunning
    /\ tpc' = "test"
    /\ UNCHANGED <<threadFrame, callbacks_count, end_callbacks, counters>>

\* ---------------------------------------- _wait_for_callbacks(timeout)
\* mutant: the query waits no longer than a subscription action
WaitTimeout_short == Ticks(STEAMWORKS_TIMEOUT)

WaitTimeout ==
    IF entry = "deps" THEN Ticks(QUERY_TIMEOUT) ELSE Ticks(STEAMWORKS_TIMEOUT)

\* mutant: the timeout leaves the stop flag as it is
timeout_flag_kept(flag) == flag

\* line 206: self.end_callbacks = True
timeout_flag(flag) == TRUE

\* mutant: the loop goes on whatever the stop flag says
wait_condition_ignores_flag == is_alive

\* line 200: not self.end_callbacks and self.steamworks_thread.is_alive()
wait_condition == ~end_callbacks /\ is_alive

\* start_time = time()
wait_enter ==
    /\ start_time' = now
    /\ pc' = "wait_test"

\* while not self.end_callbacks and self.steamworks_thread.is_alive():
\* ... return True
wait_test ==
    /\ pc = "wait_test"
    /\ IF wait_condition
       THEN pc' = "wait_time" /\ UNCHANGED completed
       ELSE pc' = "after_wait" /\ completed' = "True"
    /\ UNCHANGED <<inputVars, pfid_or_pfids, idx, now, start_time, outcome,
                   sessionVars, sdkVars, tpc, calls, counters>>

\* if elapsed_time >= timeout: end_callbacks = True; return False
\* sleep(OPERATION_INTERVAL)
wait_time ==
    /\ pc = "wait_time"
    /\ IF now - start_time >= WaitTimeout
       THEN /\ end_callbacks' = timeout_flag(end_callbacks)
            /\ completed' = "False"
            /\ pc' = "after_wait"
            /\ UNCHANGED now
       ELSE /\ now' = now + OPERATION_INTERVAL
            /\ pc' = "wait_test"
            /\ UNCHANGED <<end_callbacks, completed>>
    /\ UNCHANGED <<inputVars, pfid_or_pfids, idx, start_time, outcome,
                   callbacks_count, callbacks_total, multiple_queries,
                   steam_not_running, session, sdkVars, tpc, calls, counters>>

\* ------------------------------------- SteamworksSubscriptionHandler
mainFrame == <<inputVars, callbacks_count, callbacks_total, multiple_queries,
               steam_not_running, session, sdkInit, tpc, counters>>

\* __init__: Process.__init__, then the action is validated (ValueError) and
\* pfid_or_pfids normalised to a list.  Nothing of the SDK is touched.
handler_init ==
    /\ entry = "sub" /\ pc = "new"
    /\ IF action \notin valid_actions
       THEN /\ pc' = "rejected"
            /\ outcome' = "ValueError"
            /\ UNCHANGED pfid_or_pfids
       ELSE /\ pc' = "constructed"
            /\ pfid_or_pfids' = Normalize(arg)
            /\ UNCHANGED outcome
    /\ UNCHANGED <<inputVars, idx, now, start_time, completed, sessionVars,
                   sdkVars, tpc, calls, counters>>

\* run, lines 375-386: SteamworksInterface(callbacks=True, callbacks_total=None)
handler_open ==
    /\ entry = "sub" /\ pc = "constructed"
    /\ \E ok \in BOOLEAN, ld \in BOOLEAN : interface_init(TRUE, None, ok, ld)
    /\ pc' = "opened"
    /\ UNCHANGED <<inputVars, pfid_or_pfids, idx, now, start_time, completed,
                   outcome, unloads, registered, calls, counters>>

\* mutant: the `return` of the unavailable path is missing
after_not_running_falls_through == "load_wait"

\* line 392: `return` after the unload of the unavailable path
after_not_running == "done"

\* mutant: the `return` of the load timeout is missing
after_load_timeout_falls_through == "handle"

\* line 402: `return` when the load wait times out
after_load_timeout == "done"

\* run, lines 388-396: if steam_not_running: unload and return; else start the
\* load wait
handler_check_running ==
    /\ entry = "sub" /\ pc = "opened"
    /\ IF steam_not_running
       THEN /\ unload
            /\ outcome' = "aborted-unavailable"
            /\ pc' = after_not_running
            /\ UNCHANGED start_time
       ELSE /\ start_time' = now
            /\ pc' = "load_wait"
            /\ UNCHANGED <<unloads, sdkLoaded, outcome>>
    /\ UNCHANGED <<mainFrame, pfid_or_pfids, idx, now, completed, end_callbacks,
                   registered, calls>>

\* run, lines 397-404: while not loaded(): timeout -> return; sleep(0.1).
\* The code reads time() only as a difference from a start_time, and takes a
\* new start_time for the final wait: when the SDK is seen loaded the clock is
\* rebased to 0, so that `now` is from then on the time since "Steamworks
\* loaded and ready".
handler_load_wait ==
    /\ entry = "sub" /\ pc = "load_wait"
    /\ IF sdkLoaded
       THEN /\ pc' = "handle"
            /\ now' = 0
            /\ start_time' = 0
            /\ UNCHANGED outcome
       ELSE IF now - start_time > Ticks(STEAMWORKS_TIMEOUT)
       THEN /\ outcome' = "aborted-load-timeout"
            /\ pc' = after_load_timeout
            /\ UNCHANGED <<now, start_time>>
       ELSE /\ now' = now + OPERATION_INTERVAL
            /\ UNCHANGED <<pc, outcome, start_time>>
    /\ UNCHANGED <<mainFrame, pfid_or_pfids, idx, completed,
                   end_callbacks, sdkLoaded, unloads, registered, calls>>

\* the set of actions each _handle_* passes to _register_callbacks
RegisterSet(a) ==
    IF a = "resubscribe" THEN {"unsubscribe", "subscribe"}
    ELSE IF a = "subscribe" THEN {"subscribe"}
    ELSE IF a = "unsubscribe" THEN {"unsubscribe"}
    ELSE {}

\* _register_callbacks: unsubscribe first, then subscribe
RegisterCalls(actions) ==
    (IF "unsubscribe" \in actions
     THEN << Register("SetItemUnsubscribedCallback") >> ELSE << >>)
    \o (IF "subscribe" \in actions
        THEN << Register("SetItemSubscribedCallback") >> ELSE << >>)

\* mutant: subscribe and unsubscribe run each other's stage
FirstStage_swapped(a) ==
    IF a = "resubscribe" THEN "stage1"
    ELSE IF a = "subscribe" THEN "queue_unsubscribe"
    ELSE IF a = "unsubscribe" THEN "queue_subscribe"
    ELSE "staged"

\* the stage _handle_<action> enters after registering its callbacks
FirstStage(a) ==
    IF a = "resubscribe" THEN "stage1"
    ELSE IF a = "subscribe" THEN "queue_subscribe"
    ELSE IF a = "unsubscribe" THEN "queue_unsubscribe"
    ELSE "staged"

\* run, lines 406-412 and the head of _handle_resubscribe / _handle_subscribe /
\* _handle_unsubscribe: register the callbacks
handle_register ==
    /\ entry = "sub" /\ pc = "handle"
    /\ registered' = registered \cup RegisterSet(action)
    /\ calls' = calls \o RegisterCalls(RegisterSet(action))
    /\ pc' = FirstStage(action)
    /\ idx' = 0
    /\ UNCHANGED <<mainFrame, pfid_or_pfids, now, start_time, completed, outcome,
                   end_callbacks, sdkLoaded, unloads>>

\* mutant: the ids are walked from the end of the list
pfid_at_reversed(i) == pfid_or_pfids[Len(pfid_or_pfids) - i + 1]

\* mutant: every iteration takes the first id of the list
pfid_at_first(i) == pfid_or_pfids[1]

\* for idx, pfid in enumerate(pfids, 1): the idx-th id, in input order
pfid_at(i) == pfid_or_pfids[i]

\* operation_map of _queue_operations
operation_map(operation) ==
    IF operation = "subscribe" THEN "SubscribeItem" ELSE "UnsubscribeItem"

\* mutant: the exception is swallowed and the action goes on to its wait
after_exception_goes_on == "staged"

\* line 432: `except Exception` of run, then the finally block
after_exception == "finally"

\* one iteration of the loop of _queue_operations(operation, pfids), entered at
\* position `at` of the main flow: the call (which may raise: the exception
\* reaches the except clause of run) and, except after the last id, the sleep.
\* After the last iteration the main flow goes on with `after`.
queue_operations(operation, at, after) ==
    /\ entry = "sub" /\ pc = at
    /\ idx < Len(pfid_or_pfids)
    /\ \E raises \in BOOLEAN :
         IF raises
         THEN /\ calls' = Append(calls,
                      Call(operation_map(operation), pfid_at(idx + 1), "raised"))
              /\ outcome' = "failed"
              /\ pc' = after_exception
              /\ UNCHANGED <<idx, now>>
         ELSE /\ idx' = idx + 1
              /\ UNCHANGED outcome
              /\ IF idx + 1 < Len(pfid_or_pfids)
                 THEN /\ calls' = calls \o
                          << Call(operation_map(operation), pfid_at(idx + 1), "ok"),
                             Sleep(OPERATION_INTERVAL) >>
                      /\ now' = now + OPERATION_INTERVAL
                      /\ UNCHANGED pc
                 ELSE /\ calls' = Append(calls,
                              Call(operation_map(operation), pfid_at(idx + 1), "ok"))
                      /\ pc' = after
                      /\ UNCHANGED now
    /\ UNCHANGED <<mainFrame, pfid_or_pfids, start_time, completed, end_callbacks,
                   sdkLoaded, unloads, registered>>

\* _queue_operations over an empty list: the loop body never runs
queue_nothing(at, after) ==
    /\ entry = "sub" /\ pc = at
    /\ Len(pfid_or_pfids) = 0
    /\ pc' = after
    /\ UNCHANGED <<mainFrame, pfid_or_pfids, idx, now, start_time, completed, outcome,
                   end_callbacks, sdkLoaded, unloads, registered, calls>>

\* sleep(RESUBSCRIBE_STAGE_WAIT) between the stages of _handle_resubscribe
stage_wait(at, after) ==
    /\ entry = "sub" /\ pc = at
    /\ now' = now + Ticks(RESUBSCRIBE_STAGE_WAIT)
    /\ calls' = Append(calls, Sleep(Ticks(RESUBSCRIBE_STAGE_WAIT)))
    /\ pc' = after
    /\ idx' = 0
    /\ UNCHANGED <<mainFrame, pfid_or_pfids, start_time, completed, outcome,
                   end_callbacks, sdkLoaded, unloads, registered>>

\* mutant: a raising DownloadItem is not caught in the loop
stage_download_uncaught ==
    /\ entry = "sub" /\ pc = "stage5"
    /\ idx < Len(pfid_or_pfids)
    /\ \E raises \in BOOLEAN :
         /\ calls' = Append(calls, Download(pfid_at(idx + 1),
                                            IF raises THEN "raised" ELSE "ok"))
         /\ registered' = IF raises THEN registered ELSE registered \cup {"download"}
         /\ IF raises
            THEN outcome' = "failed" /\ pc' = "finally" /\ UNCHANGED idx
            ELSE idx' = idx + 1 /\ UNCHANGED <<pc, outcome>>
    /\ UNCHANGED <<mainFrame, pfid_or_pfids, now, start_time, completed,
                   end_callbacks, sdkLoaded, unloads>>

\* _handle_resubscribe, stage 5: DownloadItem(pfid, high_priority=True, ...) for
\* every id, an exception caught per id
stage_download ==
    /\ entry = "sub" /\ pc = "stage5"
    /\ idx < Len(pfid_or_pfids)
    /\ \E raises \in BOOLEAN :
         /\ calls' = Append(calls, Download(pfid_at(idx + 1),
                                            IF raises THEN "raised" ELSE "ok"))
         /\ registered' = IF raises THEN registered ELSE registered \cup {"download"}
    /\ idx' = idx + 1
    /\ UNCHANGED <<mainFrame, pfid_or_pfids, pc, now, start_time, completed, outcome,
                   end_callbacks, sdkLoaded, unloads>>

\* the _handle_* method returns; run calls _wait_for_callbacks(STEAMWORKS_TIMEOUT)
handler_wait ==
    /\ entry = "sub"
    /\ \/ pc = "staged"
       \/ pc = "stage5" /\ idx = Len(pfid_or_pfids)
    /\ wait_enter
    /\ UNCHANGED <<mainFrame, pfid_or_pfids, idx, now, completed, outcome,
                   end_callbacks, sdkLoaded, unloads, registered, calls>>

\* run, lines 423-430: the result of the wait is logged
handler_after_wait ==
    /\ entry = "sub" /\ pc = "after_wait"
    /\ outcome' = IF completed = "True" THEN "completed-by-callback"
                  ELSE "completed-by-timeout"
    /\ pc' = "finally"
    /\ UNCHANGED <<mainFrame, pfid_or_pfids, idx, now, start_time, completed,
                   end_callbacks, sdkLoaded, unloads, registered, calls>>

\* finally, lines 441-446: join(timeout=5) if the thread is alive
handler_finally ==
    /\ entry = "sub" /\ pc = "finally"
    /\ pc' = IF tpc # "none" /\ is_alive THEN "join" ELSE "unload"
    /\ UNCHANGED <<mainFrame, pfid_or_pfids, idx, now, start_time, completed, outcome,
                   end_callbacks, sdkLoaded, unloads, registered, calls>>

\* steamworks_thread.join(timeout=5) returns because the thread has ended
join_returns ==
    /\ entry = "sub" /\ pc = "join"
    /\ ~is_alive
    /\ pc' = "unload"
    /\ UNCHANGED <<mainFrame, pfid_or_pfids, idx, now, start_time, completed, outcome,
                   end_callbacks, sdkLoaded, unloads, registered, calls>>

\* steamworks_thread.join(timeout=5) returns because the 5 s have passed
join_times_out ==
    /\ entry = "sub" /\ pc = "join"
    /\ is_alive
    /\ now' = now + Ticks(JOIN_TIMEOUT)
    /\ pc' = "unload"
    /\ UNCHANGED <<mainFrame, pfid_or_pfids, idx, start_time, completed, outcome,
                   end_callbacks, sdkLoaded, unloads, registered, calls>>

\* finally, lines 447-448: steamworks.unload(); run returns
handler_unload ==
    /\ entry = "sub" /\ pc = "unload"
    /\ unload
    /\ pc' = "done"
    /\ UNCHANGED <<mainFrame, pfid_or_pfids, idx, now, start_time, completed, outcome,
                   end_callbacks, registered, calls>>

\* the dependency-result handler, on a payload without arguments:
\* the count is incremented, then args[0] raises IndexError out of the handler
cb_app_dependencies_malformed ==
    /\ tpc = "pumping" /\ ProcessRunning
    /\ "deps" \in registered
    /\ Invocations < MaxCallbacks
    /\ callbacks_count' = callbacks_count + 1
    /\ invoked' = invoked + 1
    /\ cb_raised' = TRUE
    /\ UNCHANGED <<threadFrame, tpc, end_callbacks, dl_invoked,
                   get_app_deps_query_result, arrived>>

\* self.get_app_deps_query_result[pfid] = app_dependencies_list, as a set of
\* <<key, value>> pairs kept in a sequence-free form: a function on its keys
StoreResult(map, pfid, deps) ==
    [k \in (DOMAIN map) \cup {pfid} |-> IF k = pfid THEN deps ELSE map[k]]

\* mutant: the list is stored whatever its length
ResultAfter_always(map, pfid, deps) == StoreResult(map, pfid, deps)

\* lines 172-173: the list is stored only when it is not empty
ResultAfter(map, pfid, deps) ==
    IF Len(deps) > 0 THEN StoreResult(map, pfid, deps) ELSE map

\* mutant: every callback sets the flag
EndAfter_any(flag, multiple, count, total) == TRUE

\* mutant: the flag is assigned the comparison instead of being set
EndAfter_assigned(flag, multiple, count, total) ==
    IF multiple THEN count = total ELSE TRUE

\* lines 175-180: the stop flag after a dependency-result callback
EndAfter(flag, multiple, count, total) ==
    IF multiple /\ count = total THEN TRUE
    ELSE IF ~multiple THEN TRUE
    ELSE flag

\* _cb_app_dependencies_result_callback on a well-formed payload
cb_app_dependencies_result_callback(pfid, deps) ==
    /\ tpc = "pumping" /\ ProcessRunning
    /\ "deps" \in registered
    /\ Invocations < MaxCallbacks
    /\ callbacks_count' = callbacks_count + 1
    /\ invoked' = invoked + 1
    /\ arrived' = arrived \cup {pfid}
    /\ get_app_deps_query_result' = ResultAfter(get_app_deps_query_result, pfid, deps)
    /\ end_callbacks' = EndAfter(end_callbacks, multiple_queries,
                                 callbacks_count + 1, callbacks_total)
    /\ UNCHANGED <<threadFrame, tpc, dl_invoked, cb_raised>>

\* ------------------------------------- SteamworksAppDependenciesQuery
\* run, lines 233-239: normalise to a list, then
\* SteamworksInterface(callbacks=True, callbacks_total=len(pfid_or_pfids))
query_open ==
    /\ entry = "deps" /\ pc = "new"
    /\ pfid_or_pfids' = Normalize(arg)
    /\ \E ok \in BOOLEAN, ld \in BOOLEAN :
         interface_init(TRUE, Len(Normalize(arg)), ok, ld)
    /\ pc' = "opened"
    /\ UNCHANGED <<inputVars, idx, now, start_time, completed, outcome, unloads,
                   registered, calls, counters>>

\* mutant: the availability of the session is not looked at
query_check_skips_availability ==
    /\ entry = "deps" /\ pc = "opened"
    /\ pc' = "query"
    /\ UNCHANGED <<outcome, unloads, sdkLoaded>>
    /\ UNCHANGED <<mainFrame, pfid_or_pfids, idx, now, start_time, completed,
                   end_callbacks, registered, calls>>

\* run, lines 240-243 and 263-266: steam not running -> unload, return None;
\* `while not loaded(): break` -> return None; else the query loop
query_check ==
    /\ entry = "deps" /\ pc = "opened"
    /\ IF steam_not_running
       THEN /\ unload
            /\ outcome' = "returned-None"
            /\ pc' = "done"
       ELSE IF ~sdkLoaded
       THEN /\ outcome' = "returned-None"
            /\ pc' = "done"
            /\ UNCHANGED <<unloads, sdkLoaded>>
       ELSE /\ pc' = "query"
            /\ UNCHANGED <<outcome, unloads, sdkLoaded>>
    /\ UNCHANGED <<mainFrame, pfid_or_pfids, idx, now, start_time, completed,
                   end_callbacks, registered, calls>>

\* run, lines 244-252: one iteration of the query loop; a raising
\* GetAppDependencies is not caught in run
query_issue ==
    /\ entry = "deps" /\ pc = "query"
    /\ idx < Len(pfid_or_pfids)
    /\ registered' = registered \cup {"deps"}
    /\ \E raises \in BOOLEAN :
         IF raises
         THEN /\ calls' = calls \o
                    << Register("SetGetAppDependenciesResultCallback"),
                       Call("GetAppDependencies", pfid_at(idx + 1), "raised") >>
              /\ outcome' = "raised"
              /\ pc' = "done"
              /\ UNCHANGED <<idx, now>>
         ELSE /\ idx' = idx + 1
              /\ UNCHANGED <<outcome, pc>>
              /\ IF Len(pfid_or_pfids) > 1
                 THEN /\ calls' = calls \o
                          << Register("SetGetAppDependenciesResultCallback"),
                             Call("GetAppDependencies", pfid_at(idx + 1), "ok"),
                             Sleep(Ticks(DEFAULT_INTERVAL)) >>
                      /\ now' = now + Ticks(DEFAULT_INTERVAL)
                 ELSE /\ calls' = calls \o
                          << Register("SetGetAppDependenciesResultCallback"),
                             Call("GetAppDependencies", pfid_at(idx + 1), "ok") >>
                      /\ UNCHANGED now
    /\ UNCHANGED <<mainFrame, pfid_or_pfids, start_time, completed, end_callbacks,
                   sdkLoaded, unloads>>

\* mutant: the wait is entered inside the issue loop
query_wait_early ==
    /\ entry = "deps" /\ pc = "query"
    /\ idx >= 1
    /\ wait_enter
    /\ UNCHANGED <<mainFrame, pfid_or_pfids, idx, now, completed, outcome,
                   end_callbacks, sdkLoaded, unloads, registered, calls>>

\* run, line 254: _wait_for_callbacks(timeout=60)
query_wait ==
    /\ entry = "deps" /\ pc = "query"
    /\ idx = Len(pfid_or_pfids)
    /\ wait_enter
    /\ UNCHANGED <<mainFrame, pfid_or_pfids, idx, now, completed, outcome,
                   end_callbacks, sdkLoaded, unloads, registered, calls>>

\* mutant: the map is returned without joining the poll thread
query_return_without_join ==
    /\ entry = "deps" /\ pc = "after_wait"
    /\ outcome' = "returned-map"
    /\ pc' = "done"
    /\ UNCHANGED <<mainFrame, pfid_or_pfids, idx, now, start_time, completed,
                   end_callbacks, sdkLoaded, unloads, registered, calls>>

\* run, lines 257-262: steamworks_thread.join() without a timeout, then the
\* result map is returned
query_join_return ==
    /\ entry = "deps" /\ pc = "after_wait"
    /\ ~is_alive
    /\ outcome' = "returned-map"
    /\ pc' = "done"
    /\ UNCHANGED <<mainFrame, pfid_or_pfids, idx, now, start_time, completed,
                   end_callbacks, sdkLoaded, unloads, registered, calls>>

\* ------------------------------------------------ SteamworksGameLaunch
\* run, line 287: SteamworksInterface(callbacks=False)
launch_open ==
    /\ entry = "launch" /\ pc = "new"
    /\ \E ok \in BOOLEAN, ld \in BOOLEAN : interface_init(FALSE, None, ok, ld)
    /\ pc' = "opened"
    /\ UNCHANGED <<inputVars, pfid_or_pfids, idx, now, start_time, completed,
                   outcome, unloads, registered, calls, counters>>

\* mutant: the SDK is unloaded before the game is launched
launch_game_process_after_unload ==
    /\ entry = "launch" /\ pc = "opened"
    /\ IF ~steam_not_running
       THEN unload
       ELSE UNCHANGED <<unloads, sdkLoaded>>
    /\ calls' = Append(calls, Register("launch_game_process"))
    /\ pc' = "launched"
    /\ UNCHANGED <<mainFrame, pfid_or_pfids, idx, now, start_time, completed, outcome,
                   end_callbacks, registered>>

\* run, lines 290-292: launch_game_process(...)
launch_game_process ==
    /\ entry = "launch" /\ pc = "opened"
    /\ calls' = Append(calls, Register("launch_game_process"))
    /\ pc' = "launched"
    /\ UNCHANGED <<mainFrame, pfid_or_pfids, idx, now, start_time, completed, outcome,
                   end_callbacks, sdkLoaded, unloads, registered>>

\* run, lines 294-299: unload if the API was initialised
launch_unload ==
    /\ entry = "launch" /\ pc = "launched"
    /\ IF ~steam_not_running
       THEN unload
       ELSE UNCHANGED <<unloads, sdkLoaded>>
    /\ outcome' = "launched"
    /\ pc' = "done"
    /\ UNCHANGED <<mainFrame, pfid_or_pfids, idx, now, start_time, completed,
                   end_callbacks, registered, calls>>

\* ------------------------------------------------------- WatchdogHandler
\* Everything of the Steamworks session stays as it is in a step of the watcher.
wrapperVars == <<entry, action, arg, pfid_or_pfids, pc, idx, now, start_time,
                 completed, outcome, sessionVars, sdkVars, tpc, calls, counters>>

\* the time since the last event of the uuid, 1 s standing for 1 s and more
SinceLast(uuid) ==
    IF cooldown_timers[uuid] = 0 THEN Ticks(COOLDOWN)
    ELSE timers[cooldown_timers[uuid]].elapsed

\* Timer(1.0, <signal>.emit) once started: no time has elapsed of its interval
NewTimer(operation, uuid) ==
    [uuid |-> uuid, operation |-> operation, elapsed |-> 0,
     since_last |-> SinceLast(uuid), state |-> "waiting"]

\* mutant: the pending timer is left running
cancel_skipped(ts, id) == ts

\* lines 84-86: timer = cooldown_timers.get(uuid); if timer: timer.cancel().
\* Timer.cancel() stops a timer that is still waiting and does nothing to one
\* that has fired.
cancel(ts, id) ==
    IF id = 0 THEN ts
    ELSE [ts EXCEPT ![id].state = IF @ = "waiting" THEN "cancelled" ELSE @]

\* __cooldown_uuid_change(callback): cancel the timer of the uuid, construct
\* the Timer(1.0, <signal of the operation>.emit), store it and start it
cooldown_uuid_change(operation, uuid) ==
    /\ Len(timers) < MaxEvents
    /\ timers' = Append(cancel(timers, cooldown_timers[uuid]),
                        NewTimer(operation, uuid))
    /\ cooldown_timers' = [cooldown_timers EXCEPT ![uuid] = Len(timers) + 1]

\* the uuids in use: uuid4() returns none of them
UsedUuids ==
    {mod_metadata_dir_mapper[p] : p \in Paths}
    \cup {mod_metadata_file_mapper[p] : p \in Paths}
    \cup {timers[i].uuid : i \in 1..Len(timers)}

\* on_created for the directory p: a uuid is generated if p is a directory
\* without a mapping, the directory is mapped, the cooldown of "created" starts
on_created(p) ==
    /\ entry = "watchdog"
    /\ mod_metadata_dir_mapper[p] = 0
    /\ \E uuid \in Uuids \ UsedUuids :
         /\ mod_metadata_dir_mapper' = [mod_metadata_dir_mapper EXCEPT ![p] = uuid]
         /\ cooldown_uuid_change("created", uuid)
    /\ UNCHANGED <<wrapperVars, emitted, mod_metadata_file_mapper>>

\* on_deleted for the directory p: the uuid is resolved from the directory
\* mapper; the metadata file of the mod is unmapped if the metadata know it,
\* the directory is unmapped, the cooldown of "deleted" starts
on_deleted(p) ==
    /\ entry = "watchdog"
    /\ mod_metadata_dir_mapper[p] # 0
    /\ \E known \in BOOLEAN :
         mod_metadata_file_mapper' =
             IF known THEN [mod_metadata_file_mapper EXCEPT ![p] = 0]
             ELSE mod_metadata_file_mapper
    /\ mod_metadata_dir_mapper' = [mod_metadata_dir_mapper EXCEPT ![p] = 0]
    /\ cooldown_uuid_change("deleted", mod_metadata_dir_mapper[p])
    /\ UNCHANGED <<wrapperVars, emitted>>

\* on_modified for the metadata file of the directory p: the uuid is resolved
\* from the file mapper (no uuid: return), the cooldown of "updated" starts
on_modified(p) ==
    /\ entry = "watchdog"
    /\ mod_metadata_file_mapper[p] # 0
    /\ cooldown_uuid_change("updated", mod_metadata_file_mapper[p])
    /\ UNCHANGED <<wrapperVars, emitted, mod_metadata_dir_mapper,
                   mod_metadata_file_mapper>>

\* the metadata manager maps the metadata file of a mapped mod directory
metadata_indexed(p) ==
    /\ entry = "watchdog"
    /\ mod_metadata_dir_mapper[p] # 0
    /\ mod_metadata_file_mapper[p] # mod_metadata_dir_mapper[p]
    /\ mod_metadata_file_mapper' =
           [mod_metadata_file_mapper EXCEPT ![p] = mod_metadata_dir_mapper[p]]
    /\ UNCHANGED <<wrapperVars, cooldown_timers, timers, emitted,
                   mod_metadata_dir_mapper>>

\* a Timer that was not cancelled runs its function once its interval has
\* passed: the signal of its operation is emitted
timer_fires(i) ==
    /\ entry = "watchdog"
    /\ i \in 1..Len(timers)
    /\ timers[i].state = "waiting"
    /\ timers[i].elapsed >= Ticks(COOLDOWN)
    /\ timers' = [timers EXCEPT ![i].state = "fired"]
    /\ emitted' = Append(emitted, [signal |-> timers[i].operation,
                                    uuid |-> timers[i].uuid,
                                    timer |-> i])
    /\ UNCHANGED <<wrapperVars, cooldown_timers, mod_metadata_dir_mapper,
                   mod_metadata_file_mapper>>

\* a timer that still counts: it waits and its interval has not passed
Counting(t) == t.state = "waiting" /\ t.elapsed < Ticks(COOLDOWN)

\* 0.1 s pass: every waiting timer is 0.1 s further into its interval (a
\* timer that is due stays due until it runs or is cancelled; a cancelled
\* timer has stopped)
watchdog_tick ==
    /\ entry = "watchdog"
    /\ \E i \in 1..Len(timers) : Counting(timers[i])
    /\ timers' = [i \in 1..Len(timers) |->
                     IF Counting(timers[i])
                     THEN [timers[i] EXCEPT !.elapsed = @ + 1]
                     ELSE timers[i]]
    /\ UNCHANGED <<wrapperVars, cooldown_timers, emitted,
                   mod_metadata_dir_mapper, mod_metadata_file_mapper>>

NextWatchdog ==
    \/ \E p \in Paths : on_created(p)
    \/ \E p \in Paths : on_deleted(p)
    \/ \E p \in Paths : on_modified(p)
    \/ \E p \in Paths : metadata_indexed(p)
    \/ \E i \in 1..MaxEvents : timer_fires(i)
    \/ watchdog_tick

SpecWatchdog == InitWatchdog /\ [][NextWatchdog]_vars

\* ------------------------------------------------------------------ Next
Waiter ==
    \/ wait_test
    \/ wait_time

Handler ==
    \/ handler_init
    \/ handler_open
    \/ handler_check_running
    \/ handler_load_wait
    \/ handle_register
    \/ queue_operations("subscribe", "queue_subscribe", "staged")
    \/ queue_operations("unsubscribe", "queue_unsubscribe", "staged")
    \/ queue_nothing("queue_subscribe", "staged")
    \/ queue_nothing("queue_unsubscribe", "staged")
    \/ queue_operations("unsubscribe", "stage1", "stage2")
    \/ queue_nothing("stage1", "stage2")
    \/ stage_wait("stage2", "stage3")
    \/ queue_operations("subscribe", "stage3", "stage4")
    \/ queue_nothing("stage3", "stage4")
    \/ stage_wait("stage4", "stage5")
    \/ stage_download
    \/ handler_wait
    \/ handler_after_wait
    \/ handler_finally
    \/ join_returns
    \/ join_times_out
    \/ handler_unload

Query ==
    \/ query_open
    \/ query_check
    \/ query_issue
    \/ query_wait
    \/ query_join_return

Launch ==
    \/ launch_open
    \/ launch_game_process
    \/ launch_unload

PollThread ==
    \/ callbacks_spin
    \/ callbacks_test
    \/ run_callbacks_enter
    \/ run_callbacks_raises
    \/ run_callbacks_return

HandlerCallbacks ==
    \/ create_callback("subscribe")
    \/ create_callback("unsubscribe")
    \/ create_download_callback

QueryCallbacks ==
    \/ cb_app_dependencies_malformed
    \/ \E pfid \in Ids, deps \in AppDeps :
         cb_app_dependencies_result_callback(pfid, deps)

\* a subscription action
Next == Handler \/ Waiter \/ PollThread \/ HandlerCallbacks \/ SdkLoads
Spec == InitHandler /\ [][Next]_vars

\* a dependency query
NextQuery == Query \/ Waiter \/ PollThread \/ QueryCallbacks \/ SdkLoads
SpecQuery == InitQuery /\ [][NextQuery]_vars

\* a caller that calls _wait_for_callbacks again after it has returned
wait_again ==
    /\ pc = "after_wait"
    /\ wait_enter
    /\ UNCHANGED <<mainFrame, pfid_or_pfids, idx, now, completed, outcome,
                   end_callbacks, sdkLoaded, unloads, registered, calls>>

SpecRewait == InitHandler /\ [][Next \/ wait_again]_vars

\* the scheduler runs the poll thread: each of its steps is taken if it stays
\* enabled
ThreadFairness ==
    /\ WF_vars(callbacks_spin)
    /\ WF_vars(callbacks_test)
    /\ WF_vars(run_callbacks_enter)
    /\ WF_vars(run_callbacks_return)

FairSpec == Spec /\ ThreadFairness
FairSpecQuery == SpecQuery /\ ThreadFairness

\* the main flow of a dependency query is a running program: it takes its next
\* step, and the scheduler runs the poll thread
LiveSpecQuery == SpecQuery /\ ThreadFairness /\ WF_vars(Query) /\ WF_vars(Waiter)

\* every entry point of the module
InitAll == InitHandler \/ InitQuery \/ InitLaunch
NextAll == Next \/ NextQuery \/ Launch
SpecAll == InitAll /\ [][NextAll]_vars
FairSpecAll == SpecAll /\ ThreadFairness

\* ================================================================ claims
IsPrefix(s, t) == Len(s) <= Len(t) /\ \A i \in 1..Len(s) : s[i] = t[i]

RegistrationOps == {"SetItemUnsubscribedCallback", "SetItemSubscribedCallback",
                    "SetGetAppDependenciesResultCallback"}
IsRegistration(c) == c.op \in RegistrationOps
WithoutResult(c) == [c EXCEPT !.res = "ok"]

\* the per-item calls and the sleeps of the main flow, whatever each call's result
ItemLog ==
    LET kept == SelectSeq(calls, LAMBDA c : ~IsRegistration(c))
    IN  [i \in 1..Len(kept) |-> WithoutResult(kept[i])]

\* op on every id of L in order, the 0.1 s spacing after every call but the last
QueueLog(op, L) ==
    [k \in 1..(IF Len(L) = 0 THEN 0 ELSE 2 * Len(L) - 1) |->
        IF k % 2 = 1 THEN Call(op, L[(k + 1) \div 2], "ok") ELSE Sleep(1)]

DownloadLog(L) == [i \in 1..Len(L) |-> Download(L[i], "ok")]

ExpectedResubscribe(L) ==
    QueueLog("UnsubscribeItem", L) \o << Sleep(10) >>
    \o QueueLog("SubscribeItem", L) \o << Sleep(10) >>
    \o DownloadLog(L)

StagesDone ==
    \/ pc \in {"wait_test", "wait_time", "after_wait"}
    \/ outcome \in {"completed-by-callback", "completed-by-timeout"}

\* C1: in a resubscribe action over the id list L, the calls issued so far are
\* at every moment a prefix of: UnsubscribeItem for every id of L in input order,
\* the 1 s stage delay, SubscribeItem for every id in input order, the 1 s stage
\* delay, DownloadItem(high priority) for every id in input order; and once the
\* stages are done they are exactly that sequence.
C1_ResubscribeOrder ==
    (entry = "sub" /\ action = "resubscribe") =>
        /\ IsPrefix(ItemLog, ExpectedResubscribe(Normalize(arg)))
        /\ StagesDone => ItemLog = ExpectedResubscribe(Normalize(arg))

C1_Witness ==
    /\ entry = "sub" /\ action = "resubscribe"
    /\ arg = <<"list", <<2, 1>> >>
    /\ outcome = "completed-by-timeout"
    /\ Len(calls) = 2 + 3 + 1 + 3 + 1 + 2
    /\ \A i \in 1..Len(calls) : calls[i].res = "ok"

\* C2: when steamworks.initialize() failed at open, the subscription action is
\* over at the availability check: no SubscribeItem, UnsubscribeItem or
\* DownloadItem call, no callback registration, no poll thread and no further
\* step of the action.
C2_UnavailableIssuesNothing ==
    (entry = "sub" /\ session /\ ~sdkInit) =>
        /\ calls = << >>
        /\ registered = {}
        /\ tpc = "none"
        /\ pc \in {"opened", "done"}

C2_Witness ==
    /\ entry = "sub" /\ session /\ ~sdkInit
    /\ action = "resubscribe" /\ Len(pfid_or_pfids) = 2
    /\ pc = "done" /\ outcome = "aborted-unavailable"

\* C3: an action literal other than subscribe, unsubscribe, resubscribe is
\* rejected at construction (ValueError): no session is created, no SDK call is
\* made, no process and no poll thread is started.
C3_InvalidActionRejected ==
    (entry = "sub" /\ action \notin {"subscribe", "unsubscribe", "resubscribe"}) =>
        /\ pc \in {"new", "rejected"}
        /\ pc = "rejected" => outcome = "ValueError"
        /\ ~session /\ ~sdkInit /\ tpc = "none"
        /\ calls = << >> /\ registered = {} /\ unloads = 0

C3_Witness ==
    /\ entry = "sub" /\ action = "purge"
    /\ pc = "rejected" /\ outcome = "ValueError"

\* C4: _wait_for_callbacks returns True only when the stop flag is set, and
\* returns False only at the timeout, having set the stop flag.
C4_WaitTrueIffStopFlag ==
    pc = "after_wait" =>
        /\ completed = "True" => end_callbacks
        /\ completed = "False" => end_callbacks /\ now - start_time >= WaitTimeout

PollThreadGone == tpc \in {"ended", "dead"} \/ ~ProcessRunning

\* C5: whatever _wait_for_callbacks returned, the poll thread then leaves its
\* pump loop and terminates, whether or not the main flow takes another step.
C5_PollThreadEndsAfterWait ==
    [](pc = "after_wait" => <>PollThreadGone)

C5_Witness ==
    /\ entry = "sub" /\ pc = "after_wait" /\ completed = "False"
    /\ tpc = "ended"

\* C6: a call of _wait_for_callbacks made after an earlier call has returned
\* goes straight to its return: it never enters the loop body, so it neither
\* sleeps nor writes the stop flag, the callback counter or the result map.
C6_WaitIdempotent ==
    [][(completed # "none" /\ pc \in {"wait_test", "wait_time"} /\ pc' # pc) =>
        /\ pc' = "after_wait"
        /\ UNCHANGED <<end_callbacks, callbacks_count, get_app_deps_query_result,
                       now, tpc>>]_vars

\* in a subscription action the first wait returns True only with a dead poll
\* thread: True with the thread alive is the answer of a second call
C6_Witness ==
    /\ entry = "sub" /\ pc = "after_wait"
    /\ completed = "True" /\ end_callbacks /\ is_alive

\* C7: the stop flag is false when the session is created and no step ever
\* takes it from true back to false.
C7_StopFlagMonotone ==
    [][/\ end_callbacks => end_callbacks'
       /\ (~session /\ session') => ~end_callbacks']_vars

C7_Witness ==
    /\ entry = "deps" /\ end_callbacks
    /\ multiple_queries /\ callbacks_count > callbacks_total

PumpCalled == tpc = "call" /\ tpc' = "pumping"
HandlerRan == invoked' # invoked \/ dl_invoked' # dl_invoked

\* C8 as stated: once the stop flag is true the pump is not invoked again and
\* no callback handler runs.
C8_NoCallbackAfterStop ==
    [][end_callbacks => ~PumpCalled /\ ~HandlerRan]_vars

\* C8, amended: once the stop flag is true the poll thread starts no new loop
\* iteration: it only finishes the iteration it is in (the pump call whose flag
\* test came before the flag was set, with the handlers delivered in it) and
\* then leaves the loop.
C8_NoNewIterationAfterStop ==
    [][end_callbacks =>
        \/ tpc' = tpc
        \/ <<tpc, tpc'>> \in {<<"spin", "test">>, <<"test", "ended">>,
                              <<"call", "pumping">>,
                              <<"call", "dead">>, <<"pumping", "test">>,
                              <<"pumping", "dead">>}]_vars

C8_Witness ==
    /\ end_callbacks /\ tpc = "ended"
    /\ entry = "deps" /\ callbacks_count > callbacks_total

\* C9: a subscription action that started the poll thread never ends with the
\* stop flag still false.
C9_StopFlagSetAtEnd ==
    (entry = "sub" /\ pc = "done" /\ tpc # "none") => end_callbacks

\* C10: a subscription action whose SDK initialised but did not report loaded
\* within the 30 s budget aborts with nothing staged: no callback registered
\* and no SubscribeItem, UnsubscribeItem or DownloadItem call, while it waits
\* and after it gave up, and it gives up only once more than 30 s have passed.
C10_LoadTimeoutStagesNothing ==
    /\ (entry = "sub" /\ pc = "load_wait") => calls = << >> /\ registered = {}
    /\ outcome = "aborted-load-timeout" =>
          /\ calls = << >> /\ registered = {}
          /\ sdkInit /\ ~sdkLoaded
          /\ now - start_time > 30 * 10

C10_Witness ==
    /\ entry = "sub" /\ action = "resubscribe" /\ Len(pfid_or_pfids) = 2
    /\ outcome = "aborted-load-timeout" /\ pc = "done"

\* C11: a subscription action whose SDK initialised but never reported loaded
\* within the 30 s budget releases the session before it ends: the poll thread
\* has been stopped and the SDK has been unloaded.
C11_LoadTimeoutReleasesSession ==
    (entry = "sub" /\ outcome = "aborted-load-timeout") =>
        /\ unloads >= 1
        /\ tpc \in {"ended", "dead"}

\* what the stages of an action issue over the id list L when nothing fails
ExpectedFor(a, L) ==
    IF a = "resubscribe" THEN ExpectedResubscribe(L)
    ELSE QueueLog(operation_map(a), L)

\* C12: when SubscribeItem or UnsubscribeItem raises on the N-th id of a stage,
\* the raising call is the last call of the action (nothing for the ids after
\* N, no later stage), the calls made before it stay as they were issued, the
\* wait is never entered, the exception is caught in run, and run goes through
\* its teardown: the bounded join, then the unload, exactly once.
C12_StageFailureStopsAction ==
    (entry = "sub" /\ outcome = "failed") =>
        /\ Len(calls) > 0
        /\ calls[Len(calls)].res = "raised"
        /\ calls[Len(calls)].op \in {"SubscribeItem", "UnsubscribeItem"}
        /\ \A i \in 1..(Len(calls) - 1) : calls[i].res = "ok"
        /\ IsPrefix(ItemLog, ExpectedFor(action, pfid_or_pfids))
        /\ completed = "none"
        /\ pc \in {"finally", "join", "unload", "done"}
        /\ pc \in {"finally", "join", "unload"} => unloads = 0
        /\ pc = "done" => unloads = 1

C12_Witness ==
    /\ entry = "sub" /\ outcome = "failed" /\ pc = "done"
    /\ action = "resubscribe" /\ pfid_or_pfids = <<1, 2>>
    /\ calls[Len(calls)] = Call("SubscribeItem", 2, "raised")
    /\ unloads = 1

\* C13: steamworks.unload() is called only on a session whose initialize()
\* succeeded, in the subscription action, the dependency query and the game
\* launch alike.
C13_UnloadOnlyAfterInit ==
    unloads > 0 => sdkInit

\* C14: in a subscription action the stop flag is forced at most 30 s after the
\* SDK was seen loaded: the time of the stages and the final wait together stay
\* within the one 30 s budget.  (`now` is the time since the SDK was seen
\* loaded.)
C14_ThirtySecondsInTotal ==
    (entry = "sub" /\ pc = "after_wait" /\ completed = "False") =>
        now <= Ticks(STEAMWORKS_TIMEOUT)

OwnRegistration(a) ==
    IF a = "subscribe" THEN "SetItemSubscribedCallback"
    ELSE "SetItemUnsubscribedCallback"

WaitStarted == pc \in {"wait_test", "wait_time", "after_wait"} \/ completed # "none"

\* C15: in a subscribe (unsubscribe) action the first SDK call registers the
\* subscribe (unsubscribe) callback, every later call is a SubscribeItem
\* (UnsubscribeItem) or a spacing sleep, no other callback kind is ever
\* registered, and when the wait starts one call per id has been issued.
C15_SingleStageOrder ==
    (entry = "sub" /\ action \in {"subscribe", "unsubscribe"}) =>
        /\ registered \subseteq {action}
        /\ calls # << >> => calls[1] = Register(OwnRegistration(action))
        /\ \A i \in 2..Len(calls) : calls[i].op \in {operation_map(action), "sleep"}
        /\ WaitStarted =>
              /\ action \in registered
              /\ Len(SelectSeq(calls, LAMBDA c : c.op = operation_map(action)))
                    = Len(Normalize(arg))
              /\ \A i \in 1..Len(calls) : calls[i].res = "ok"

C15_Witness ==
    /\ entry = "sub" /\ action = "unsubscribe" /\ arg = <<"list", <<2, 1>> >>
    /\ pc = "after_wait"
    /\ calls = << Register("SetItemUnsubscribedCallback"),
                  Call("UnsubscribeItem", 2, "ok"), Sleep(1),
                  Call("UnsubscribeItem", 1, "ok") >>

\* C16: a completed run of _queue_operations over the list L has issued exactly
\* one call per element of L, in the order of L and with repeated ids repeated,
\* and has slept 0.1 s after every call but the last (not at all for a list of
\* one or no element).
C16_OneCallPerElement ==
    entry = "sub" =>
        /\ pc = "staged" => ItemLog = QueueLog(operation_map(action), Normalize(arg))
        /\ pc = "stage2" => ItemLog = QueueLog("UnsubscribeItem", Normalize(arg))
        /\ pc = "stage4" =>
              ItemLog = QueueLog("UnsubscribeItem", Normalize(arg))
                        \o << Sleep(Ticks(RESUBSCRIBE_STAGE_WAIT)) >>
                        \o QueueLog("SubscribeItem", Normalize(arg))

C16_Witness ==
    /\ entry = "sub" /\ action = "subscribe" /\ arg = <<"list", <<1, 1>> >>
    /\ pc = "staged"
    /\ ItemLog = << Call("SubscribeItem", 1, "ok"), Sleep(OPERATION_INTERVAL),
                    Call("SubscribeItem", 1, "ok") >>

\* C17 as stated: after the dependency handler has run for the id p with the
\* list d, empty or not, the result map holds d under p.
C17_EveryListStored ==
    [][\A p \in Ids, d \in AppDeps :
          cb_app_dependencies_result_callback(p, d) =>
              /\ p \in DOMAIN get_app_deps_query_result'
              /\ get_app_deps_query_result'[p] = d]_vars

\* C17, amended: after the dependency handler has run for the id p with a
\* non-empty list d the result map holds d under p and is otherwise unchanged;
\* after it has run with the empty list the result map is unchanged (no entry
\* is added for p, an earlier entry of p stays).
C17_NonEmptyListStored ==
    [][\A p \in Ids, d \in AppDeps :
          cb_app_dependencies_result_callback(p, d) =>
              IF Len(d) > 0
              THEN /\ DOMAIN get_app_deps_query_result'
                        = DOMAIN get_app_deps_query_result \cup {p}
                   /\ get_app_deps_query_result'[p] = d
                   /\ \A k \in DOMAIN get_app_deps_query_result \ {p} :
                         get_app_deps_query_result'[k] = get_app_deps_query_result[k]
              ELSE get_app_deps_query_result' = get_app_deps_query_result]_vars

\* one callback with a list for id 1, one with the empty list for id 2
C17_Witness ==
    /\ entry = "deps" /\ arrived = {1, 2} /\ callbacks_count = 2 /\ ~cb_raised
    /\ DOMAIN get_app_deps_query_result = {1}
    /\ get_app_deps_query_result[1] = << 7 >>

\* the dependency handler runs to its end on some payload
DepsHandlerReturns ==
    \E p \in Ids, d \in AppDeps : cb_app_dependencies_result_callback(p, d)

Queried == {pfid_or_pfids[i] : i \in 1..Len(pfid_or_pfids)}

\* C19 as stated: the wait of a dependency query returns before the 60 s
\* ceiling only when the handler has been called for every queried id (with
\* well-formed callbacks for queried ids only and a poll thread that has not
\* died).
C19_EarlyReturnOnlyWhenAllArrived ==
    (/\ entry = "deps" /\ pc = "after_wait" /\ completed = "True"
     /\ tpc # "dead" /\ ~cb_raised /\ arrived \subseteq Queried) =>
        Queried \subseteq arrived

\* C19, amended: the wait of a dependency query over N ids returns before the
\* 60 s ceiling only when the number of callbacks delivered has reached N,
\* whichever ids they were for, or when the poll thread has died; otherwise it
\* returns at the 60 s timeout.  The result map holds entries only for ids a
\* callback has arrived for.
C19_EarlyReturnOnlyAtCount ==
    (entry = "deps" /\ (pc = "after_wait" \/ outcome = "returned-map")) =>
        /\ completed = "True" =>
              \/ callbacks_total >= 1 /\ callbacks_count >= callbacks_total
                 /\ end_callbacks
              \/ tpc = "dead"
        /\ completed = "False" => now - start_time >= 60 * 10
        /\ DOMAIN get_app_deps_query_result \subseteq arrived

\* two callbacks for id 1 and none for id 2: the wait returns True
C19_Witness ==
    /\ entry = "deps" /\ pfid_or_pfids = <<1, 2>> /\ pc = "after_wait"
    /\ completed = "True" /\ arrived = {1} /\ callbacks_count = 2
    /\ tpc # "dead" /\ ~cb_raised
    /\ DOMAIN get_app_deps_query_result = {1}

\* C20: a dependency query returns None only when steamworks.initialize()
\* failed at open.
C20_NoneOnlyWhenUnavailable ==
    (entry = "deps" /\ outcome = "returned-None") => ~sdkInit

\* C21: when steamworks.initialize() failed at open, the dependency query
\* issues no GetAppDependencies call, registers no callback, has no poll
\* thread, never waits, and returns None.
C21_UnavailableQueryReturnsNone ==
    (entry = "deps" /\ session /\ ~sdkInit) =>
        /\ calls = << >>
        /\ registered = {}
        /\ tpc = "none"
        /\ completed = "none"
        /\ pc \in {"opened", "done"}
        /\ pc = "done" => outcome = "returned-None"

C21_Witness ==
    /\ entry = "deps" /\ session /\ ~sdkInit
    /\ Len(pfid_or_pfids) = 2
    /\ pc = "done" /\ outcome = "returned-None"

WithoutResults(log) == [i \in 1..Len(log) |-> WithoutResult(log[i])]

\* what a dependency query over the one-element list <<x>> issues
ExpectedQueryOfOne(x) ==
    << Register("SetGetAppDependenciesResultCallback"),
       Call("GetAppDependencies", x, "ok") >>

\* C22: an entry point given the single id x and one given the list [x] are
\* described by the same statement, which does not mention the form of the
\* argument: the normalised list is <<x>>; a dependency query expects one
\* callback and issues one registration and one GetAppDependencies(x), without
\* an interval sleep; a subscription action issues the call sequence of its
\* action over <<x>>; the result map holds only ids a callback arrived for.
C22_SingleIdAsList ==
    \A x \in Ids :
        (arg \in {<<"int", x>>, <<"list", << x >> >>} /\ pc \notin {"new", "rejected"}) =>
            /\ pfid_or_pfids = << x >>
            /\ entry = "deps" =>
                  /\ callbacks_total = 1 /\ multiple_queries
                  /\ IsPrefix(WithoutResults(calls), ExpectedQueryOfOne(x))
                  /\ WaitStarted => calls = ExpectedQueryOfOne(x)
                  /\ DOMAIN get_app_deps_query_result \subseteq arrived
            /\ entry = "sub" =>
                  /\ callbacks_total = None /\ ~multiple_queries
                  /\ IsPrefix(ItemLog, ExpectedFor(action, << x >>))
                  /\ StagesDone => ItemLog = ExpectedFor(action, << x >>)

C22_Witness ==
    /\ entry = "deps" /\ arg = <<"int", 2>>
    /\ outcome = "returned-map" /\ completed = "True"
    /\ calls = ExpectedQueryOfOne(2)
    /\ DOMAIN get_app_deps_query_result = {2}

\* C23: once the dependency query has returned its result map the poll thread
\* has terminated, so that no callback handler and no step of the poll thread
\* can run any more and the map stays as it was returned.
C23_ReturnedMapIsStable ==
    (entry = "deps" /\ outcome = "returned-map") =>
        /\ tpc \in {"ended", "dead"}
        /\ ~ENABLED QueryCallbacks
        /\ ~ENABLED PollThread

C23_Witness ==
    /\ entry = "deps" /\ outcome = "returned-map" /\ pc = "done"
    /\ tpc = "ended" /\ completed = "True"
    /\ DOMAIN get_app_deps_query_result = {1, 2}

\* C24: no callback handler lets an exception out, whatever the payload.
C24_NoHandlerRaises ==
    ~cb_raised

\* a callback handler runs: it counts, logs or stores
HandlerWrites ==
    \/ callbacks_count' # callbacks_count
    \/ invoked' # invoked
    \/ dl_invoked' # dl_invoked
    \/ get_app_deps_query_result' # get_app_deps_query_result
    \/ arrived' # arrived

\* C25: every run of a callback handler, and with it every write of the
\* callback counter and of the result map, is a step of the poll thread inside
\* its call of run_callbacks(); the main flow does not move in such a step.
C25_HandlersRunOnPollThread ==
    [][HandlerWrites =>
          /\ tpc = "pumping" /\ tpc' = "pumping"
          /\ UNCHANGED <<pc, idx, calls, now, start_time, completed, outcome>>]_vars

C25_Witness ==
    /\ entry = "sub" /\ invoked = 1 /\ dl_invoked = 1 /\ callbacks_count = 1
    /\ pc = "wait_time"

\* C26: after the open of a session there is a poll thread exactly when polling
\* is enabled (every entry point but the game launch) and initialize()
\* succeeded; before the open there is none; and a poll thread is started only
\* by the step that opens the session, never a second time.
C26_OnePollThread ==
    [][/\ session' => ((tpc' # "none") <=> (sdkInit' /\ entry' # "launch"))
       /\ ~session' => tpc' = "none"
       /\ (tpc' = "spin" /\ tpc # "spin") => (~session /\ session')]_vars

C26_Witness ==
    /\ entry = "launch" /\ session /\ sdkInit /\ tpc = "none" /\ pc = "done"

\* C27: when steamworks.initialize() raises, the open completes with
\* steam_not_running = True (and with False when it succeeded); the entry point
\* goes on with its unavailable path and ends without an exception.
C27_UnavailabilityIsAState ==
    session =>
        /\ steam_not_running <=> ~sdkInit
        /\ ~sdkInit =>
              /\ pc \in {"opened", "launched", "done"}
              /\ outcome \in {"none", "aborted-unavailable", "returned-None", "launched"}
              /\ pc = "done" => outcome # "none"

C27_Witness ==
    /\ entry = "launch" /\ session /\ ~sdkInit /\ steam_not_running
    /\ pc = "done" /\ outcome = "launched" /\ unloads = 0

\* C29: a dependency query whose session opened successfully has unloaded the
\* SDK when it returns the result map.
C29_QueryUnloadsBeforeReturn ==
    (entry = "deps" /\ outcome = "returned-map") => unloads >= 1

\* C30: when a GetAppDependencies call raises, the dependency query still goes
\* through a teardown: the stop flag is set and the SDK is unloaded.
C30_FetchFailureTearsDown ==
    (entry = "deps" /\ outcome = "raised") =>
        /\ end_callbacks
        /\ unloads >= 1

GameLaunched ==
    \E i \in 1..Len(calls) : calls[i] = Register("launch_game_process")

\* C31 as stated: in a game launch whose SDK initialised, the SDK has been
\* unloaded when launch_game_process is invoked.
C31_UnloadBeforeLaunch ==
    (entry = "launch" /\ sdkInit /\ GameLaunched) => unloads >= 1

\* C31, amended: the game is launched first, with the SDK still initialised
\* when initialize() succeeded; steamworks.unload() is called only after
\* launch_game_process has returned, once if the SDK initialised and not at all
\* if it did not.
C31_LaunchBeforeUnload ==
    entry = "launch" =>
        /\ unloads >= 1 => GameLaunched
        /\ pc = "launched" => GameLaunched /\ unloads = 0
        /\ pc = "done" => GameLaunched /\ unloads = (IF sdkInit THEN 1 ELSE 0)

C31_Witness ==
    /\ entry = "launch" /\ sdkInit /\ pc = "done"
    /\ GameLaunched /\ unloads = 1

\* C33: steamworks.unload() of a session that initialised is called only when
\* the poll thread of the session is no longer alive.
C33_UnloadAfterThreadEnd ==
    [][(entry = "sub" /\ sdkInit /\ unloads' > unloads) => ~is_alive]_vars

\* C34: in a subscription action the stop flag is written only by the timeout
\* of the waiter, never in a step in which a callback handler runs; the wait
\* returns True only when the poll thread is dead, and otherwise returns False
\* after the full 30 s, whatever number of callbacks arrived.
C34_OnlyTimeoutEndsSubscription ==
    [][entry = "sub" =>
          /\ HandlerWrites => end_callbacks' = end_callbacks
          /\ (~end_callbacks /\ end_callbacks') =>
                /\ pc = "wait_time" /\ completed' = "False"
                /\ now - start_time >= 30 * 10
          /\ (pc = "wait_test" /\ pc' = "after_wait") =>
                completed' = "True" /\ ~end_callbacks /\ ~is_alive]_vars

C34_Witness ==
    /\ entry = "sub" /\ pc = "after_wait" /\ completed = "False"
    /\ callbacks_count = 2 /\ now - start_time = 300

\* C35 as stated: in a dependency query the stop flag is not set before the
\* GetAppDependencies call of the last id has been issued (with well-formed
\* callbacks for queried ids only and no raising call).
C35_NoStopBeforeLastIssue ==
    (/\ entry = "deps" /\ end_callbacks
     /\ ~cb_raised /\ arrived \subseteq Queried /\ outcome # "raised") =>
        idx = Len(pfid_or_pfids)

\* C35, amended: in a dependency query the stop flag is set before the call of
\* the last id has been issued only by a handler run that brings the callback
\* count to the number of ids while fewer calls than that have been issued,
\* that is when more callbacks have been delivered than calls were issued
\* (duplicate or unsolicited callbacks); and the poll thread leaves its loop
\* only with the stop flag set.
C35_NoStopBeforeLastIssueUnlessSurplus ==
    [][entry = "deps" =>
          /\ (~end_callbacks /\ end_callbacks') =>
                \/ idx = Len(pfid_or_pfids)
                \/ /\ DepsHandlerReturns
                   /\ callbacks_count' = callbacks_total
                   /\ callbacks_count' > idx
          /\ tpc' = "ended" => end_callbacks']_vars

\* two callbacks for id 1 while the call for id 2 is still to be issued
C35_Witness ==
    /\ entry = "deps" /\ pfid_or_pfids = <<1, 2>> /\ end_callbacks
    /\ idx = 1 /\ callbacks_count = 2 /\ arrived = {1} /\ ~cb_raised

\* C36: the callback counter is 0 at the start, moves only up and only by one,
\* only in a step of a handler inside the pump, never in a run of the download
\* handler, and always equals the number of runs of the subscribe, unsubscribe
\* and dependency-result handlers, those on a malformed payload included.
C36_CounterCountsHandlerRuns ==
    [][/\ callbacks_count = invoked
       /\ callbacks_count' = invoked'
       /\ callbacks_count' \in {callbacks_count, callbacks_count + 1}
       /\ callbacks_count' # callbacks_count => tpc = "pumping"
       /\ dl_invoked' # dl_invoked => callbacks_count' = callbacks_count]_vars

C36_Witness ==
    /\ entry = "deps" /\ cb_raised /\ callbacks_count = 2 /\ invoked = 2
    /\ arrived # {}

SeenDownloadRaise ==
    \E i \in 1..Len(calls) : calls[i].op = "DownloadItem" /\ calls[i].res = "raised"

DownloadIds ==
    LET dl == SelectSeq(calls, LAMBDA c : c.op = "DownloadItem")
    IN  [i \in 1..Len(dl) |-> dl[i].id]

\* C37: after a DownloadItem call of the download stage has raised, the
\* downloads of the later ids are still issued in input order, the action does
\* not take the failed path, and it ends only after the final wait, with the
\* download of every id issued.
C37_DownloadFailureIsPerId ==
    (entry = "sub" /\ SeenDownloadRaise) =>
        /\ IsPrefix(DownloadIds, pfid_or_pfids)
        /\ outcome \in {"none", "completed-by-callback", "completed-by-timeout"}
        /\ pc \in {"stage5", "wait_test", "wait_time", "after_wait",
                    "finally", "join", "unload", "done"}
        /\ pc # "stage5" => DownloadIds = pfid_or_pfids
        /\ pc \in {"finally", "join", "unload", "done"} => completed # "none"

C37_Witness ==
    /\ entry = "sub" /\ pfid_or_pfids = <<1, 2>> /\ pc = "done"
    /\ outcome = "completed-by-timeout"
    /\ calls[Len(calls) - 1] = Download(1, "raised")
    /\ calls[Len(calls)] = Download(2, "ok")

\* C38: with the main flow running and the poll thread scheduled, every
\* dependency query comes to its end, whatever the SDK does: the wait is left
\* after 60 s at the latest and the join that follows it returns.
C38_QueryTerminates ==
    <>(pc = "done")

C38_Witness ==
    /\ entry = "deps" /\ pc = "done" /\ outcome = "returned-map"
    /\ completed = "False" /\ tpc = "ended" /\ now - start_time >= 600

TimersOf(u) == {i \in 1..Len(timers) : timers[i].uuid = u}

\* the event after event i for the same uuid came less than 1 s later
FollowedWithinCooldown(i) ==
    \E j \in TimersOf(timers[i].uuid) :
        /\ j > i
        /\ \A k \in TimersOf(timers[i].uuid) : k <= i \/ k >= j
        /\ timers[j].since_last < Ticks(COOLDOWN)

\* C39: a uuid has at most one pending timer, which is the one of its last
\* event, and a timer is cancelled by nothing but a later event of its own
\* uuid; the timer of an event that is followed by another event of the same
\* uuid less than 1 s later is cancelled and never fires, so that of a burst
\* only the last event can emit; each timer emits at most once, the signal of
\* its own event.
C39_OnePendingTimerPerUuid ==
    /\ \A u \in Uuids :
          /\ Cardinality({i \in TimersOf(u) : timers[i].state = "waiting"}) <= 1
          /\ TimersOf(u) # {} =>
                /\ cooldown_timers[u] \in TimersOf(u)
                /\ \A i \in TimersOf(u) : i <= cooldown_timers[u]
                /\ timers[cooldown_timers[u]].state # "cancelled"
          /\ TimersOf(u) = {} => cooldown_timers[u] = 0
    /\ \A i \in 1..Len(timers) :
          /\ timers[i].state = "cancelled" => i < cooldown_timers[timers[i].uuid]
          /\ FollowedWithinCooldown(i) => timers[i].state = "cancelled"
    /\ \A k \in 1..Len(emitted) :
          /\ timers[emitted[k].timer].state = "fired"
          /\ emitted[k].signal = timers[emitted[k].timer].operation
          /\ emitted[k].uuid = timers[emitted[k].timer].uuid
          /\ ~FollowedWithinCooldown(emitted[k].timer)
          /\ \A m \in 1..Len(emitted) : emitted[m].timer = emitted[k].timer => m = k

\* two updates of mod 1 within a second with the creation of another mod in
\* between: the creation and the second update emit, the first update does not
C39_Witness ==
    /\ entry = "watchdog" /\ Len(timers) = 3
    /\ timers[1].uuid = 1 /\ timers[1].operation = "updated"
    /\ timers[2].uuid = 2 /\ timers[2].operation = "created"
    /\ timers[3].uuid = 1 /\ timers[3].operation = "updated"
    /\ timers[3].since_last \in 1..(Ticks(COOLDOWN) - 1)
    /\ timers[1].state = "cancelled"
    /\ Len(emitted) = 2
    /\ emitted[1].timer = 2 /\ emitted[1].signal = "created"
    /\ emitted[2].timer = 3 /\ emitted[2].signal = "updated"

====
